---- MODULE Spec2Model ----
(***************************************************************************)
(* zoekt-dynamic-indexserver: the HTTP service that turns an /index        *)
(* request into the clone -> fetch -> index-build pipeline under one       *)
(* deadline, and empties the repo and index directories on /truncate.      *)
(*                                                                         *)
(* Representation.  A path is the sequence of its components, the way      *)
(* strings.Split(p, "/") would give it: "/data/repos" is                   *)
(* <<"", "data", "repos">> (absolute: first component empty) and           *)
(* "data/repos" is <<"data", "repos">>.  PathString renders it.  A uint32  *)
(* is a pair of 16-bit limbs [hi, lo], because TLC's integers are          *)
(* 32-bit signed and cannot hold 2^32 - 1.  A request body is a sequence   *)
(* of JSON tokens.                                                         *)
(***************************************************************************)
EXTENDS Integers, Sequences, FiniteSets, TLC

\* ------------------------------------------------------------------ bounds

\* Connections the server accepts over its lifetime (one handler each).
MaxConns == 2

\* -index_timeout, in clock ticks.
IndexTimeoutFlag == 1

\* ------------------------------------------------------- program constants

\* One limb of a uint32: RepoID is uint32, two 16-bit limbs.
LimbBase == 65536

\* strconv.FormatUint(..., 10) and the %d verb: decimal.
DecimalBase == 10

\* http.StatusBadRequest, http.StatusInternalServerError, and the status the
\* server sends when the handler returns without writing.
StatusBadRequest == 400

StatusInternalServerError == 500

StatusOK == 200

\* ------------------------------------------------------------------- paths

RECURSIVE JoinStrings(_, _)
\* strings.Join(parts, sep)
JoinStrings(parts, sep) ==
  IF Len(parts) = 0 THEN ""
  ELSE IF Len(parts) = 1 THEN parts[1]
  ELSE parts[1] \o sep \o JoinStrings(Tail(parts), sep)

\* The string a path value stands for.
PathString(p) == IF p = <<"">> THEN "/" ELSE JoinStrings(p, "/")

IsAbs(p) == Len(p) > 0 /\ p[1] = ""

\* filepath.Join(dir, name) for clean operands: empty elements are ignored.
FilepathJoin(dir, name) ==
  IF Len(dir) = 0 THEN name
  ELSE IF Len(name) = 0 THEN dir
  ELSE dir \o name

\* The working directory of the process.
Cwd == <<"", "srv">>

\* filepath.Abs(p): p itself when absolute; otherwise os.Getwd() joined with
\* p, and the error of os.Getwd() when that fails (wdOK = FALSE).
FilepathAbs(p, wdOK) ==
  IF IsAbs(p) THEN [err |-> FALSE, path |-> p]
  ELSE IF ~wdOK THEN [err |-> TRUE, path |-> <<>>]
  ELSE [err |-> FALSE, path |-> FilepathJoin(Cwd, p)]

\* How the operating system resolves a path given to a file operation.
OsResolve(p) == IF IsAbs(p) THEN p ELSE FilepathJoin(Cwd, p)

\* ------------------------------------------------------------------ uint32

U32(hi, lo) == [hi |-> hi, lo |-> lo]

Digit(d) ==
  CASE d = 0 -> "0" [] d = 1 -> "1" [] d = 2 -> "2" [] d = 3 -> "3"
    [] d = 4 -> "4" [] d = 5 -> "5" [] d = 6 -> "6" [] d = 7 -> "7"
    [] d = 8 -> "8" [] d = 9 -> "9"

\* Long division of a two-limb number by 10: quotient and remainder.
DivMod10(n) ==
  LET qhi == n.hi \div DecimalBase
      rhi == n.hi % DecimalBase
      mid == rhi * LimbBase + n.lo
  IN [q |-> U32(qhi, mid \div DecimalBase), r |-> mid % DecimalBase]

RECURSIVE FormatUint(_)
\* strconv.FormatUint(uint64(id), 10): most significant digit first, no
\* leading zeros, "0" for zero.
FormatUint(n) ==
  LET dm == DivMod10(n)
  IN IF n.hi = 0 /\ n.lo < DecimalBase THEN Digit(n.lo)
     ELSE FormatUint(dm.q) \o Digit(dm.r)

\* Faulty variant of SprintfGit: the id is narrowed to 16 bits before it is
\* formatted.
SprintfGitNarrow(id) == FormatUint(U32(0, id.lo)) \o ".git"

\* fmt.Sprintf("%d.git", id)
SprintfGit(id) == FormatUint(id) \o ".git"

\* ------------------------------------------------------- JSON request body

\* A body is a sequence of tokens.  An object is "{", then members (a string
\* token for the key followed by one value token), then "}".
Tok(t, s) == [t |-> t, s |-> s, neg |-> FALSE, digits |-> <<>>, frac |-> FALSE]

NumTok(neg, digits, frac) ==
  [t |-> "num", s |-> "", neg |-> neg, digits |-> digits, frac |-> frac]

LBrace == Tok("{", "")

RBrace == Tok("}", "")

Str(s) == Tok("str", s)

Null == Tok("null", "")

\* Bytes that start no JSON value.
Junk == Tok("junk", "")

ValueTypes == {"str", "num", "null"}

RECURSIVE ScanMembers(_, _)
\* The scanner inside an object, at token i: the index of the "}" that closes
\* it, or 0 when the text ends or goes wrong before that.
ScanMembers(body, i) ==
  IF i > Len(body) THEN 0
  ELSE IF body[i].t = "}" THEN i
  ELSE IF body[i].t # "str" THEN 0
  ELSE IF i + 1 > Len(body) THEN 0
  ELSE IF body[i + 1].t \notin ValueTypes THEN 0
  ELSE ScanMembers(body, i + 2)

\* Decoder.readValue: the index of the last token of the first JSON value of
\* the body, or 0 for an empty body (io.EOF), a truncated value
\* (io.ErrUnexpectedEOF) or a syntax error.  It stops at the end of the first
\* value and does not look at what follows it.
ReadValue(body) ==
  IF Len(body) = 0 THEN 0
  ELSE IF body[1].t = "{" THEN ScanMembers(body, 2)
  ELSE IF body[1].t \in ValueTypes THEN 1
  ELSE 0

RECURSIVE ParseUintWrap(_, _, _)
\* Faulty variant of ParseUintFrom: no overflow check, the value is kept
\* modulo 2^32.
ParseUintWrap(digits, i, acc) ==
  LET lo10 == acc.lo * DecimalBase + digits[i]
      hi10 == acc.hi * DecimalBase + (lo10 \div LimbBase)
  IN IF i > Len(digits) THEN [ok |-> TRUE, v |-> acc]
     ELSE ParseUintWrap(digits, i + 1, U32(hi10 % LimbBase, lo10 % LimbBase))

RECURSIVE ParseUintFrom(_, _, _)
\* strconv.ParseUint followed by the uint32 overflow check: the digits
\* accumulated most significant first; not ok once the value passes 2^32 - 1.
ParseUintFrom(digits, i, acc) ==
  LET lo10 == acc.lo * DecimalBase + digits[i]
      hi10 == acc.hi * DecimalBase + (lo10 \div LimbBase)
  IN IF i > Len(digits) THEN [ok |-> TRUE, v |-> acc]
     ELSE IF hi10 >= LimbBase THEN [ok |-> FALSE, v |-> acc]
     ELSE ParseUintFrom(digits, i + 1, U32(hi10, lo10 % LimbBase))

\* A JSON number stored into a uint32 field.
ParseUint32(tok) ==
  IF tok.neg \/ tok.frac \/ Len(tok.digits) = 0 THEN [ok |-> FALSE, v |-> U32(0, 0)]
  ELSE ParseUintFrom(tok.digits, 1, U32(0, 0))

\* The key spellings the decoder folds onto a field name (it matches exactly
\* first, then case-insensitively).
FoldPairs == {<<"cloneurl", "CloneURL">>, <<"repoid", "RepoID">>, <<"REPOID", "RepoID">>}

EqualFold(key, name) == key = name \/ <<key, name>> \in FoldPairs

\* var req indexRequest: the zero value.
ZeroRequest == [CloneURL |-> "", RepoID |-> U32(0, 0)]

\* One member stored into the struct: [req, err].  An unknown key is an error
\* under DisallowUnknownFields; a value of the wrong type, a negative,
\* fractional or too large number is an UnmarshalTypeError that leaves the
\* field as it was; null leaves the field as it was without error.
StoreMember(acc, key, val) ==
  LET n == ParseUint32(val)
  IN IF EqualFold(key, "CloneURL") THEN
       IF val.t = "str" THEN [acc EXCEPT !.req.CloneURL = val.s]
       ELSE IF val.t = "null" THEN acc
       ELSE [acc EXCEPT !.err = TRUE]
     ELSE IF EqualFold(key, "RepoID") THEN
       IF val.t = "num" /\ n.ok THEN [acc EXCEPT !.req.RepoID = n.v]
       ELSE IF val.t = "null" THEN acc
       ELSE [acc EXCEPT !.err = TRUE]
     ELSE [acc EXCEPT !.err = TRUE]

RECURSIVE StoreMembers(_, _, _, _)
StoreMembers(body, i, end, acc) ==
  IF i >= end THEN acc
  ELSE StoreMembers(body, i + 2, end, StoreMember(acc, body[i].s, body[i + 1]))

\* dec.DisallowUnknownFields(); err := dec.Decode(&req)
Decode(body) ==
  LET end == ReadValue(body)
      start == [req |-> ZeroRequest, err |-> FALSE]
  IN IF end = 0 THEN [req |-> ZeroRequest, err |-> TRUE]
     ELSE IF body[1].t = "{" THEN StoreMembers(body, 2, end, start)
     ELSE IF body[1].t = "null" THEN start
     ELSE [req |-> ZeroRequest, err |-> TRUE]

\* ------------------------------------------------------------- file system

\* The disk is the set of paths that exist, each an absolute path.

IsPrefix(p, q) == Len(p) <= Len(q) /\ SubSeq(q, 1, Len(p)) = p

\* The path and everything below it.
Subtree(disk, p) == {q \in disk : IsPrefix(p, q)}

Children(disk, d) == {q \in disk : Len(q) = Len(d) + 1 /\ IsPrefix(d, q)}

RECURSIVE Ancestors(_)
\* The path and every directory above it, the root excluded.
Ancestors(p) == IF Len(p) <= 1 THEN {} ELSE {p} \cup Ancestors(SubSeq(p, 1, Len(p) - 1))

\* os.Stat(s) returns no error
StatOK(disk, s) == OsResolve(s) \in disk

\* os.MkdirAll(s, 0o755), when it succeeds: s and its missing parents.
MkdirAll(disk, s) == disk \cup Ancestors(OsResolve(s))

\* File names in the order ioutil.ReadDir sorts them (by name, bytewise).
NameOrder ==
  <<"0.git", "0_v16.00000.zoekt", "100.git", "100_v16.00000.zoekt",
    "4294967295.git", "4294967295_v16.00000.zoekt", "a", "b", "c", "d", "index", "repos">>

\* ioutil.ReadDir(dir): an error when dir does not exist, else the names of
\* its entries, sorted.
ReadDir(disk, dir) ==
  LET d == OsResolve(dir)
      present(n) == (d \o <<n>>) \in disk
  IN IF d \notin disk THEN [err |-> TRUE, files |-> <<>>]
     ELSE [err |-> FALSE, files |-> SelectSeq(NameOrder, present)]

\* Faulty variant of RemoveAllOK: os.Remove in its place, which unlinks the
\* one path and nothing below it.
RemoveOnly(disk, path) == disk \ {OsResolve(path)}

\* os.RemoveAll(path) returning nil: the path and all below it are gone (a
\* path that does not exist is no error).
RemoveAllOK(disk, path) == disk \ Subtree(disk, OsResolve(path))

\* os.RemoveAll(path) returning an error: the path itself is still there,
\* and so is some part of what was below it.
RemoveAllFailed(disk, path) ==
  LET p == OsResolve(path)
      below == Subtree(disk, p) \ {p}
  IN {disk \ gone : gone \in {g \in SUBSET below :
                                 \A q \in g : Subtree(disk, q) \subseteq g}}

\* ------------------------------------------------------------------- state

VARIABLES
  flags,        \* the command line: data_dir, index_dir, index_timeout
  phase,        \* where main() is: "parse", "mkdir1".."mkdir3", "serving", "fatal"
  opts,         \* the Options parseOptions returned
  disk,         \* the paths that exist
  route,        \* per connection: "" (not yet accepted), "/index", "/truncate", "unit"
  after,        \* per connection: the connections answered before its request came
  pc,           \* per connection: where its handler is
  body,         \* per connection: the request body received
  req,          \* per connection: the decoded indexRequest
  timer,        \* per connection: the ticks left until the deadline of ctx
  gitRepoPath,  \* per connection: indexRepository's gitRepoPath
  cmdHistory,   \* per connection: the calls of executeCmd so far
  logged,       \* per connection: the lines its handler logged
  resp,         \* per connection: the response written
  dir,          \* per connection: the directory emptyDirectory was called on
  files,        \* per connection: emptyDirectory's listing, what is left of it
  removed,      \* per connection: the paths emptyDirectory has removed
  ret           \* per connection: the calls of emptyDirectory that returned, each
                \* with its directory and whether it returned an error

procVars == <<flags, phase, opts>>

indexVars == <<body, req, timer, gitRepoPath, cmdHistory, logged>>

emptyVars == <<dir, files, removed, ret>>

vars ==
  <<flags, phase, opts, disk, route, pc, body, req, timer, gitRepoPath,
    cmdHistory, logged, resp, dir, files, removed, ret, after>>

Conns == 1..MaxConns

\* No context yet; and the context after cancel().
NoDeadline == -1

Cancelled == -2

NoPath == <<>>

NoResp == [status |-> 0, msg |-> ""]

\* --------------------------------------------------------- the command line

\* The command lines followed: -data_dir not given; an absolute -data_dir
\* with the default index directory; a relative -data_dir with -index_dir
\* given.
Flags ==
  { [data_dir |-> <<>>, index_dir |-> <<>>, index_timeout |-> IndexTimeoutFlag],
    [data_dir |-> <<"", "data">>, index_dir |-> <<>>, index_timeout |-> IndexTimeoutFlag],
    [data_dir |-> <<"data">>, index_dir |-> <<"", "idx">>, index_timeout |-> IndexTimeoutFlag] }

NoOptions ==
  [dataDir |-> NoPath, repoDir |-> NoPath, indexDir |-> NoPath, indexTimeout |-> 0,
   listen |-> ""]

\* Faulty variant of parseOptions: -index_dir is not looked at.
parseOptionsDefaultIndex(f) ==
  [dataDir |-> f.data_dir,
   repoDir |-> FilepathJoin(f.data_dir, <<"repos">>),
   indexDir |-> FilepathJoin(f.data_dir, <<"index">>),
   indexTimeout |-> f.index_timeout,
   listen |-> ":6060"]

\* parseOptions, past the check of -data_dir.
parseOptions(f) ==
  [dataDir |-> f.data_dir,
   repoDir |-> FilepathJoin(f.data_dir, <<"repos">>),
   indexDir |-> IF f.index_dir = <<>> THEN FilepathJoin(f.data_dir, <<"index">>)
                ELSE f.index_dir,
   indexTimeout |-> f.index_timeout,
   listen |-> ":6060"]

\* --------------------------------------------------------- request bodies

URL1 == "https://example.com/repository.git"

URL2 == "https://example.com/other.git"

Num100 == NumTok(FALSE, <<1, 0, 0>>, FALSE)

NumMax == NumTok(FALSE, <<4, 2, 9, 4, 9, 6, 7, 2, 9, 5>>, FALSE)

NumTooBig == NumTok(FALSE, <<4, 2, 9, 4, 9, 6, 7, 2, 9, 6>>, FALSE)

NumNegative == NumTok(TRUE, <<1>>, FALSE)

NumFraction == NumTok(FALSE, <<1>>, TRUE)

Object(members) == <<LBrace>> \o members \o <<RBrace>>

Body100 == Object(<<Str("CloneURL"), Str(URL1), Str("RepoID"), Num100>>)

\* The keys in lower case, which the decoder folds onto the fields.
BodyFolded == Object(<<Str("cloneurl"), Str(URL2), Str("repoid"), Num100>>)

BodyExtraField ==
  Object(<<Str("CloneURL"), Str(URL1), Str("RepoID"), Num100, Str("Extra"), Str("x")>>)

BodyTooBig == Object(<<Str("CloneURL"), Str(URL1), Str("RepoID"), NumTooBig>>)

BodyNegative == Object(<<Str("CloneURL"), Str(URL1), Str("RepoID"), NumNegative>>)

BodyFraction == Object(<<Str("CloneURL"), Str(URL1), Str("RepoID"), NumFraction>>)

BodyStringID == Object(<<Str("CloneURL"), Str(URL1), Str("RepoID"), Str("100")>>)

WellFormedBodies ==
  {Body100, BodyFolded, BodyExtraField, BodyTooBig, BodyNegative, BodyFraction, BodyStringID}

BodyEmpty == <<>>

\* Cut off before the closing brace.
BodyTruncated == <<LBrace, Str("CloneURL"), Str(URL1), Str("RepoID"), Num100>>

BodyKeyNoValue == <<LBrace, Str("CloneURL"), RBrace>>

BodyJunk == <<Junk>>

\* A complete object followed by one more closing brace.
BodyMaxTrailing == Object(<<Str("RepoID"), NumMax, Str("CloneURL"), Str(URL1)>>) \o <<RBrace>>

\* Not JSON texts.
MalformedBodies == {BodyEmpty, BodyTruncated, BodyKeyNoValue, BodyJunk, BodyMaxTrailing}

Bodies == WellFormedBodies \cup MalformedBodies

\* ----------------------------------------------------------------- startup

\* What an earlier run of the service left in its working directories:
\* files a and b and a subdirectory c holding d in the repo directory, one
\* shard in the index directory.
Populated(o) ==
  LET repo == OsResolve(o.repoDir)
      index == OsResolve(o.indexDir)
  IN Ancestors(repo) \cup Ancestors(index)
       \cup {repo \o <<"a">>, repo \o <<"b">>, repo \o <<"c">>, repo \o <<"c", "d">>,
             index \o <<"0_v16.00000.zoekt">>}

\* The disk when the process starts: a fresh machine with none of the
\* working directories, or, under an absolute -data_dir, what an earlier run
\* left.
InitialDisks(f) == IF IsAbs(f.data_dir) THEN {Populated(parseOptions(f))} ELSE {{}}

InitConns ==
  /\ route = [c \in Conns |-> ""]
  /\ after = [c \in Conns |-> {}]
  /\ pc = [c \in Conns |-> "idle"]
  /\ body = [c \in Conns |-> <<>>]
  /\ req = [c \in Conns |-> ZeroRequest]
  /\ timer = [c \in Conns |-> NoDeadline]
  /\ gitRepoPath = [c \in Conns |-> NoPath]
  /\ cmdHistory = [c \in Conns |-> <<>>]
  /\ logged = [c \in Conns |-> <<>>]
  /\ resp = [c \in Conns |-> NoResp]
  /\ dir = [c \in Conns |-> NoPath]
  /\ files = [c \in Conns |-> <<>>]
  /\ removed = [c \in Conns |-> {}]
  /\ ret = [c \in Conns |-> <<>>]

Init ==
  /\ flags \in Flags
  /\ phase = "parse"
  /\ opts = NoOptions
  /\ disk \in InitialDisks(flags)
  /\ InitConns

connVars ==
  <<route, after, pc, body, req, timer, gitRepoPath, cmdHistory, logged, resp, dir, files,
    removed, ret>>

\* main: opts := parseOptions(); log.Fatal when -data_dir is empty.
ParseOptions ==
  /\ phase = "parse"
  /\ IF flags.data_dir = <<>>
       THEN phase' = "fatal" /\ opts' = opts
       ELSE phase' = "mkdir1" /\ opts' = parseOptions(flags)
  /\ UNCHANGED <<flags, disk, connVars>>

\* The directories createMissingDirectories ranges over, in its order.
WorkingDirectories(o) == <<o.dataDir, o.indexDir, o.repoDir>>

MkdirPhases == <<"mkdir1", "mkdir2", "mkdir3">>

MkdirIndex(ph) == CHOOSE i \in 1..3 : MkdirPhases[i] = ph

AfterMkdir(ph) == IF ph = "mkdir3" THEN "listen" ELSE MkdirPhases[MkdirIndex(ph) + 1]

\* Faulty variant of createMissingDirectories: a failed os.MkdirAll is logged
\* with log.Printf and the loop goes on.
createMissingDirectoriesNoFatal ==
  /\ phase \in {"mkdir1", "mkdir2", "mkdir3"}
  /\ LET s == WorkingDirectories(opts)[MkdirIndex(phase)]
     IN IF StatOK(disk, s)
          THEN phase' = AfterMkdir(phase) /\ disk' = disk
          ELSE \E ok \in BOOLEAN :
                 /\ phase' = AfterMkdir(phase)
                 /\ disk' = IF ok THEN MkdirAll(disk, s) ELSE disk
  /\ UNCHANGED <<flags, opts, connVars>>

\* One iteration of createMissingDirectories: skip a path os.Stat finds,
\* else os.MkdirAll it, and log.Fatalf when that fails.
createMissingDirectories ==
  /\ phase \in {"mkdir1", "mkdir2", "mkdir3"}
  /\ LET s == WorkingDirectories(opts)[MkdirIndex(phase)]
     IN IF StatOK(disk, s)
          THEN phase' = AfterMkdir(phase) /\ disk' = disk
          ELSE \E ok \in BOOLEAN :
                 IF ok THEN phase' = AfterMkdir(phase) /\ disk' = MkdirAll(disk, s)
                 ELSE phase' = "fatal" /\ disk' = disk
  /\ UNCHANGED <<flags, opts, connVars>>

\* startIndexingApi: the handlers are registered and http.ListenAndServe
\* either serves or returns an error, which is fatal.
startIndexingApi ==
  /\ phase = "listen"
  /\ \E ok \in BOOLEAN : phase' = IF ok THEN "serving" ELSE "fatal"
  /\ UNCHANGED <<flags, opts, disk, connVars>>

\* ------------------------------------------------------------ connections

\* The server accepts a connection and routes its request; each connection
\* gets a handler of its own (connections are taken in order).
Receive(c) ==
  /\ phase = "serving"
  /\ route[c] = ""
  /\ \A b \in Conns : b < c => route[b] # ""
  /\ \E path \in {"/index", "/truncate"} :
       /\ route' = [route EXCEPT ![c] = path]
       /\ after' = [after EXCEPT ![c] = {b \in Conns : pc[b] = "done"}]
       /\ IF path = "/index"
            THEN /\ \E b \in Bodies : body' = [body EXCEPT ![c] = b]
                 /\ pc' = [pc EXCEPT ![c] = "decode"]
                 /\ dir' = dir
            ELSE /\ body' = body
                 /\ pc' = [pc EXCEPT ![c] = "repo_read"]
                 /\ dir' = [dir EXCEPT ![c] = opts.repoDir]
  /\ UNCHANGED <<procVars, disk, req, timer, gitRepoPath, cmdHistory, logged,
                 resp, files, removed, ret>>

LogLine(line, argv) == [line |-> line, argv |-> argv]

\* http.Error(w, msg, code)
HttpError(msg, code) == [status |-> code, msg |-> msg]

\* The handler returned without writing: the server sends 200, no body.
HttpDefault == [status |-> StatusOK, msg |-> ""]

\* serveIndex up to the first command: decode the body strictly; 400 "JSON
\* parser error" on a decode error; else indexRepository is entered and makes
\* its context, whose deadline is opts.indexTimeout from now.
\* Faulty variant of serveIndex: the path is resolved first, before any
\* command of the run.
serveIndexResolveFirst(c) ==
  /\ route[c] = "/index"
  /\ pc[c] = "decode"
  /\ LET d == Decode(body[c])
     IN IF d.err
          THEN /\ logged' = [logged EXCEPT ![c] = Append(@, [line |-> "Error decoding index request", argv |-> <<>>])]
               /\ resp' = [resp EXCEPT ![c] = [status |-> StatusBadRequest, msg |-> "JSON parser error"]]
               /\ pc' = [pc EXCEPT ![c] = "done"]
               /\ UNCHANGED <<req, timer>>
          ELSE /\ req' = [req EXCEPT ![c] = d.req]
               /\ timer' = [timer EXCEPT ![c] = opts.indexTimeout]
               /\ pc' = [pc EXCEPT ![c] = "resolve"]
               /\ UNCHANGED <<logged, resp>>
  /\ UNCHANGED <<procVars, disk, route, after, body, gitRepoPath, cmdHistory, emptyVars>>

serveIndex(c) ==
  /\ route[c] = "/index"
  /\ pc[c] = "decode"
  /\ LET d == Decode(body[c])
     IN IF d.err
          THEN /\ logged' = [logged EXCEPT ![c] = Append(@, LogLine("Error decoding index request", <<>>))]
               /\ resp' = [resp EXCEPT ![c] = HttpError("JSON parser error", StatusBadRequest)]
               /\ pc' = [pc EXCEPT ![c] = "done"]
               /\ UNCHANGED <<req, timer>>
          ELSE /\ req' = [req EXCEPT ![c] = d.req]
               /\ timer' = [timer EXCEPT ![c] = opts.indexTimeout]
               /\ pc' = [pc EXCEPT ![c] = "clone"]
               /\ UNCHANGED <<logged, resp>>
  /\ UNCHANGED <<procVars, disk, route, after, body, gitRepoPath, cmdHistory, emptyVars>>

\* ctx.Done() is closed: the deadline of the connection's context has passed.
Expired(c) == timer[c] = 0

Stages == {"clone", "fetch", "index"}

Running(stage) ==
  CASE stage = "clone" -> "clone_run" [] stage = "fetch" -> "fetch_run"
    [] stage = "index" -> "index_run"

\* cmd.Run after the process has ended, still waiting for the goroutines
\* that copy its stdout and stderr into the buffers: they end when every
\* holder of the pipes (the process's own children too) has closed them.
Draining(stage) ==
  CASE stage = "clone" -> "clone_drain" [] stage = "fetch" -> "fetch_drain"
    [] stage = "index" -> "index_drain"

StageOf(p) ==
  CASE p \in {"clone", "clone_run", "clone_drain"} -> "clone"
    [] p \in {"fetch", "fetch_run", "fetch_drain"} -> "fetch"
    [] p \in {"index", "index_run", "index_drain"} -> "index"

\* indexRepository: the name and arguments of each of its three commands.
CloneArgv(o, r) ==
  <<"zoekt-git-clone", "-dest", PathString(o.repoDir), "-name", FormatUint(r.RepoID),
    "-repoid", FormatUint(r.RepoID), r.CloneURL>>

FetchArgv(path) == <<"git", "-C", PathString(path), "fetch">>

\* Faulty variant of IndexArgv: the index builder without its -index flag, as
\* an earlier revision of the service called it.
IndexArgvNoFlag(o, path) == <<"zoekt-git-index", PathString(path)>>

IndexArgv(o, path) == <<"zoekt-git-index", "-index", PathString(o.indexDir), PathString(path)>>

\* The repository path a fetch or an index build is about to be given is not
\* on the disk (kept with the call, for the record).
PathGone(c, stage) == stage # "clone" /\ gitRepoPath[c] \notin disk

\* Faulty variant of StageArgv: after a command that failed, the index
\* builder is called without its -index flag.
StageArgvAfterFailure(c, stage) ==
  CASE stage = "clone" -> CloneArgv(opts, req[c])
    [] stage = "fetch" -> FetchArgv(gitRepoPath[c])
    [] stage = "index" ->
         IF cmdHistory[c][Len(cmdHistory[c])].failed
           THEN IndexArgvNoFlag(opts, gitRepoPath[c])
         ELSE IndexArgv(opts, gitRepoPath[c])

StageArgv(c, stage) ==
  CASE stage = "clone" -> CloneArgv(opts, req[c])
    [] stage = "fetch" -> FetchArgv(gitRepoPath[c])
    [] stage = "index" -> IndexArgv(opts, gitRepoPath[c])

\* Faulty variant of AfterStage: the handler reports a failed index build
\* with a 500.
AfterStageStatus(c, stage) ==
  CASE stage = "clone" -> pc' = [pc EXCEPT ![c] = "resolve"] /\ UNCHANGED <<resp, timer>>
    [] stage = "fetch" -> pc' = [pc EXCEPT ![c] = "index"] /\ UNCHANGED <<resp, timer>>
    [] stage = "index" ->
         /\ pc' = [pc EXCEPT ![c] = "done"]
         /\ resp' = [resp EXCEPT ![c] =
                       IF cmdHistory'[c][Len(cmdHistory'[c])].failed
                         THEN [status |-> StatusInternalServerError, msg |-> "index failed"]
                       ELSE [status |-> StatusOK, msg |-> ""]]
         /\ timer' = [timer EXCEPT ![c] = Cancelled]

\* Faulty variant of AfterStage: indexRepository returns at the first command
\* that fails.
AfterStageAbort(c, stage) ==
  IF stage = "index" \/ cmdHistory'[c][Len(cmdHistory'[c])].failed
    THEN /\ pc' = [pc EXCEPT ![c] = "done"]
         /\ resp' = [resp EXCEPT ![c] = [status |-> StatusOK, msg |-> ""]]
         /\ timer' = [timer EXCEPT ![c] = Cancelled]
  ELSE /\ pc' = [pc EXCEPT ![c] = IF stage = "clone" THEN "resolve" ELSE "index"]
       /\ UNCHANGED <<resp, timer>>

\* Faulty variant of AfterStage: a run whose repository was not there when
\* a command was called on it is given up with a 500.
AfterStageGone(c, stage) ==
  IF cmdHistory'[c][Len(cmdHistory'[c])].gone
    THEN /\ pc' = [pc EXCEPT ![c] = "done"]
         /\ resp' = [resp EXCEPT ![c] = [status |-> StatusInternalServerError, msg |-> "repository missing"]]
         /\ timer' = [timer EXCEPT ![c] = Cancelled]
  ELSE CASE stage = "clone" -> pc' = [pc EXCEPT ![c] = "resolve"] /\ UNCHANGED <<resp, timer>>
         [] stage = "fetch" -> pc' = [pc EXCEPT ![c] = "index"] /\ UNCHANGED <<resp, timer>>
         [] stage = "index" -> /\ pc' = [pc EXCEPT ![c] = "done"]
                               /\ resp' = [resp EXCEPT ![c] = [status |-> StatusOK, msg |-> ""]]
                               /\ timer' = [timer EXCEPT ![c] = Cancelled]

\* Faulty variant of AfterStage: a run is given up with a 504 once a command
\* of it was called past the deadline.
AfterStageDeadline(c, stage) ==
  IF cmdHistory'[c][Len(cmdHistory'[c])].expired
    THEN /\ pc' = [pc EXCEPT ![c] = "done"]
         /\ resp' = [resp EXCEPT ![c] = [status |-> 504, msg |-> "deadline exceeded"]]
         /\ timer' = [timer EXCEPT ![c] = Cancelled]
  ELSE CASE stage = "clone" -> pc' = [pc EXCEPT ![c] = "resolve"] /\ UNCHANGED <<resp, timer>>
         [] stage = "fetch" -> pc' = [pc EXCEPT ![c] = "index"] /\ UNCHANGED <<resp, timer>>
         [] stage = "index" -> /\ pc' = [pc EXCEPT ![c] = "done"]
                               /\ resp' = [resp EXCEPT ![c] = [status |-> StatusOK, msg |-> ""]]
                               /\ timer' = [timer EXCEPT ![c] = Cancelled]

\* Faulty variant of AfterStage: a fresh context.WithTimeout for each stage.
AfterStageRearm(c, stage) ==
  CASE stage = "clone" -> /\ pc' = [pc EXCEPT ![c] = "resolve"]
                          /\ timer' = [timer EXCEPT ![c] = opts.indexTimeout]
                          /\ resp' = resp
    [] stage = "fetch" -> /\ pc' = [pc EXCEPT ![c] = "index"]
                          /\ timer' = [timer EXCEPT ![c] = opts.indexTimeout]
                          /\ resp' = resp
    [] stage = "index" -> /\ pc' = [pc EXCEPT ![c] = "done"]
                          /\ resp' = [resp EXCEPT ![c] = [status |-> StatusOK, msg |-> ""]]
                          /\ timer' = [timer EXCEPT ![c] = Cancelled]

\* indexRepository after executeCmd returned from a stage: on to resolving
\* the path after the clone, to the index build after the fetch, and after
\* the index build it returns, serveIndex returns, and the server answers.
AfterStage(c, stage) ==
  CASE stage = "clone" -> pc' = [pc EXCEPT ![c] = "resolve"] /\ UNCHANGED <<resp, timer>>
    [] stage = "fetch" -> pc' = [pc EXCEPT ![c] = "index"] /\ UNCHANGED <<resp, timer>>
    [] stage = "index" -> /\ pc' = [pc EXCEPT ![c] = "done"]
                          /\ resp' = [resp EXCEPT ![c] = HttpDefault]
                          /\ timer' = [timer EXCEPT ![c] = Cancelled]

\* Faulty variant of loggedRun: the error of cmd.Run is dropped unlogged.
loggedRunQuiet(argv, failed) == <<[line |-> "run", argv |-> argv]>>

\* loggedRun: the "run" line, and the "failed" line when cmd.Run returned an
\* error.
loggedRun(argv, failed) ==
  IF failed THEN <<LogLine("run", argv), LogLine("failed", argv)>>
  ELSE <<LogLine("run", argv)>>

\* Faulty variant of executeCmd: exec.Command in place of
\* exec.CommandContext, so a command starts whatever the deadline.
executeCmdNoContext(c) ==
  /\ route[c] = "/index"
  /\ pc[c] \in Stages
  /\ \E found \in BOOLEAN :
       LET argv == StageArgv(c, pc[c])
           call == [argv |-> argv, expired |-> timer[c] = 0, started |-> found,
                    failed |-> ~found, running |-> found, returned |-> ~found,
                    gone |-> PathGone(c, pc[c])]
       IN /\ cmdHistory' = [cmdHistory EXCEPT ![c] = Append(@, call)]
          /\ IF found
               THEN /\ logged' = [logged EXCEPT ![c] = @ \o <<Head(loggedRun(argv, FALSE))>>]
                    /\ pc' = [pc EXCEPT ![c] = Running(pc[c])]
                    /\ UNCHANGED <<resp, timer>>
               ELSE /\ logged' = [logged EXCEPT ![c] = @ \o loggedRun(argv, TRUE)]
                    /\ AfterStage(c, pc[c])
  /\ UNCHANGED <<procVars, disk, route, after, body, req, gitRepoPath, emptyVars>>

\* Faulty variant of executeCmd: cmd.Start in place of cmd.Run, so the call
\* returns while the command runs.
executeCmdStart(c) ==
  /\ route[c] = "/index"
  /\ pc[c] \in Stages
  /\ \E found \in BOOLEAN :
       LET argv == StageArgv(c, pc[c])
           started == found /\ ~Expired(c)
           call == [argv |-> argv, expired |-> Expired(c), started |-> started,
                    failed |-> ~started, running |-> started, returned |-> TRUE,
                    gone |-> PathGone(c, pc[c])]
       IN /\ cmdHistory' = [cmdHistory EXCEPT ![c] = Append(@, call)]
          /\ logged' = [logged EXCEPT ![c] = @ \o loggedRun(argv, ~started)]
          /\ AfterStage(c, pc[c])
  /\ UNCHANGED <<procVars, disk, route, after, body, req, gitRepoPath, emptyVars>>

\* executeCmd, to where cmd.Run has either failed to start the command or
\* started it.  It does not start when the executable is not found or when
\* the context is already done; executeCmd then returns to indexRepository.
executeCmd(c) ==
  /\ route[c] = "/index"
  /\ pc[c] \in Stages
  /\ \E found \in BOOLEAN :
       LET argv == StageArgv(c, pc[c])
           started == found /\ ~Expired(c)
           call == [argv |-> argv, expired |-> Expired(c), started |-> started,
                    failed |-> ~started, running |-> started, returned |-> ~started,
                    gone |-> PathGone(c, pc[c])]
       IN /\ cmdHistory' = [cmdHistory EXCEPT ![c] = Append(@, call)]
          /\ IF started
               THEN /\ logged' = [logged EXCEPT ![c] = @ \o <<Head(loggedRun(argv, FALSE))>>]
                    /\ pc' = [pc EXCEPT ![c] = Running(pc[c])]
                    /\ UNCHANGED <<resp, timer>>
               ELSE /\ logged' = [logged EXCEPT ![c] = @ \o loggedRun(argv, TRUE)]
                    /\ AfterStage(c, pc[c])
  /\ UNCHANGED <<procVars, disk, route, after, body, req, gitRepoPath, emptyVars>>

\* What the external programs leave on the disk when they exit 0: the clone
\* tool a bare repository {dest}/{name}.git with its HEAD, the index builder a shard in the
\* index directory, git fetch nothing the service looks at.
CloneEffect(d, o, r) ==
  LET repo == OsResolve(o.repoDir) \o <<FormatUint(r.RepoID) \o ".git">>
  IN IF OsResolve(o.repoDir) \in d THEN d \cup {repo, repo \o <<"HEAD">>} ELSE d

IndexEffect(d, o, r, path) ==
  IF OsResolve(o.indexDir) \in d /\ path \in d
    THEN d \cup {OsResolve(o.indexDir) \o <<FormatUint(r.RepoID) \o "_v16.00000.zoekt">>}
    ELSE d

StageEffect(d, c, stage) ==
  CASE stage = "clone" -> CloneEffect(d, opts, req[c])
    [] stage = "fetch" -> d
    [] stage = "index" -> IndexEffect(d, opts, req[c], gitRepoPath[c])

\* The call in progress when its process has ended, with its outcome; held:
\* cmd.Run has not returned yet, the output pipes being still open.
Finish(history, failed, held) ==
  [history EXCEPT ![Len(history)] =
     [@ EXCEPT !.failed = failed, !.running = FALSE, !.returned = ~held]]

\* cmd.Run returns into loggedRun, which logs the failure if there was one
\* and returns, and executeCmd returns to indexRepository.
RunReturns(c, stage, failed, held) ==
  IF held
    THEN /\ pc' = [pc EXCEPT ![c] = Draining(stage)]
         /\ UNCHANGED <<logged, resp, timer>>
  ELSE /\ logged' = [logged EXCEPT ![c] = @ \o Tail(loggedRun(StageArgv(c, stage), failed))]
       /\ AfterStage(c, stage)

\* The command exits, with status 0 or not.
CommandExit(c) ==
  /\ route[c] = "/index"
  /\ pc[c] \in {"clone_run", "fetch_run", "index_run"}
  /\ \E code \in {0, 1} : \E held \in BOOLEAN :
       LET stage == StageOf(pc[c])
       IN /\ cmdHistory' = [cmdHistory EXCEPT ![c] = Finish(@, code # 0, held)]
          /\ disk' = IF code = 0 THEN StageEffect(disk, c, stage) ELSE disk
          /\ RunReturns(c, stage, code # 0, held)
  /\ UNCHANGED <<procVars, route, after, body, req, gitRepoPath, emptyVars>>

\* Faulty variant of CommandKilled: the command was made with exec.Command,
\* and nothing ends it at the deadline.
CommandNotKilled(c) ==
  /\ FALSE
  /\ UNCHANGED vars

\* The context's deadline passes while the command runs: exec kills the
\* process.
CommandKilled(c) ==
  /\ route[c] = "/index"
  /\ pc[c] \in {"clone_run", "fetch_run", "index_run"}
  /\ Expired(c)
  /\ \E held \in BOOLEAN :
       /\ cmdHistory' = [cmdHistory EXCEPT ![c] = Finish(@, TRUE, held)]
       /\ RunReturns(c, StageOf(pc[c]), TRUE, held)
  /\ UNCHANGED <<procVars, disk, route, after, body, req, gitRepoPath, emptyVars>>

\* The last holder of the output pipes closes them: the copying ends and
\* cmd.Run returns.
PipesClosed(c) ==
  /\ route[c] = "/index"
  /\ pc[c] \in {"clone_drain", "fetch_drain", "index_drain"}
  /\ cmdHistory' = [cmdHistory EXCEPT ![c] =
                      [@ EXCEPT ![Len(@)] = [@ EXCEPT !.returned = TRUE]]]
  /\ RunReturns(c, StageOf(pc[c]), cmdHistory[c][Len(cmdHistory[c])].failed, FALSE)
  /\ UNCHANGED <<procVars, disk, route, after, body, req, gitRepoPath, emptyVars>>

\* Faulty variant of ResolvePath: the return after http.Error is missing,
\* and the run goes on to the fetch with the empty path filepath.Abs returned.
ResolvePathNoReturn(c) ==
  /\ route[c] = "/index"
  /\ pc[c] = "resolve"
  /\ \E wdOK \in BOOLEAN :
       LET abs == FilepathAbs(FilepathJoin(opts.repoDir, <<SprintfGit(req[c].RepoID)>>), wdOK)
       IN IF abs.err
            THEN /\ logged' = [logged EXCEPT ![c] = Append(@, LogLine("error loading git repo path", <<>>))]
                 /\ resp' = [resp EXCEPT ![c] = HttpError("JSON parser error", StatusBadRequest)]
                 /\ pc' = [pc EXCEPT ![c] = "fetch"]
                 /\ UNCHANGED <<gitRepoPath, timer>>
            ELSE /\ gitRepoPath' = [gitRepoPath EXCEPT ![c] = abs.path]
                 /\ pc' = [pc EXCEPT ![c] = "fetch"]
                 /\ UNCHANGED <<logged, resp, timer>>
  /\ UNCHANGED <<procVars, disk, route, after, body, req, cmdHistory, emptyVars>>

\* Faulty variant of ResolvePath: with the path resolved the run goes
\* straight to the index build, without the fetch.
ResolvePathSkipFetch(c) ==
  /\ route[c] = "/index"
  /\ pc[c] = "resolve"
  /\ \E wdOK \in BOOLEAN :
       LET abs == FilepathAbs(FilepathJoin(opts.repoDir, <<SprintfGit(req[c].RepoID)>>), wdOK)
       IN IF abs.err
            THEN /\ logged' = [logged EXCEPT ![c] = Append(@, LogLine("error loading git repo path", <<>>))]
                 /\ resp' = [resp EXCEPT ![c] = HttpError("JSON parser error", StatusBadRequest)]
                 /\ pc' = [pc EXCEPT ![c] = "done"]
                 /\ timer' = [timer EXCEPT ![c] = Cancelled]
                 /\ gitRepoPath' = gitRepoPath
            ELSE /\ gitRepoPath' = [gitRepoPath EXCEPT ![c] = abs.path]
                 /\ pc' = [pc EXCEPT ![c] = "index"]
                 /\ UNCHANGED <<logged, resp, timer>>
  /\ UNCHANGED <<procVars, disk, route, after, body, req, cmdHistory, emptyVars>>

\* Faulty variant of ResolvePath: each request works in a directory of its
\* own below the repository path.
ResolvePathPerRequest(c) ==
  /\ route[c] = "/index"
  /\ pc[c] = "resolve"
  /\ \E wdOK \in BOOLEAN :
       LET abs == FilepathAbs(FilepathJoin(opts.repoDir, <<SprintfGit(req[c].RepoID)>>), wdOK)
       IN IF abs.err
            THEN /\ logged' = [logged EXCEPT ![c] = Append(@, LogLine("error loading git repo path", <<>>))]
                 /\ resp' = [resp EXCEPT ![c] = HttpError("JSON parser error", StatusBadRequest)]
                 /\ pc' = [pc EXCEPT ![c] = "done"]
                 /\ timer' = [timer EXCEPT ![c] = Cancelled]
                 /\ gitRepoPath' = gitRepoPath
            ELSE /\ gitRepoPath' = [gitRepoPath EXCEPT ![c] =
                                      FilepathJoin(abs.path, <<IF c = 1 THEN "a" ELSE "b">>)]
                 /\ pc' = [pc EXCEPT ![c] = "fetch"]
                 /\ UNCHANGED <<logged, resp, timer>>
  /\ UNCHANGED <<procVars, disk, route, after, body, req, cmdHistory, emptyVars>>

\* indexRepository between the clone and the fetch: the absolute path of
\* {repoDir}/{RepoID}.git, or 400 and return when it cannot be had.
ResolvePath(c) ==
  /\ route[c] = "/index"
  /\ pc[c] = "resolve"
  /\ \E wdOK \in BOOLEAN :
       LET abs == FilepathAbs(FilepathJoin(opts.repoDir, <<SprintfGit(req[c].RepoID)>>), wdOK)
       IN IF abs.err
            THEN /\ logged' = [logged EXCEPT ![c] = Append(@, LogLine("error loading git repo path", <<>>))]
                 /\ resp' = [resp EXCEPT ![c] = HttpError("JSON parser error", StatusBadRequest)]
                 /\ pc' = [pc EXCEPT ![c] = "done"]
                 /\ timer' = [timer EXCEPT ![c] = Cancelled]
                 /\ gitRepoPath' = gitRepoPath
            ELSE /\ gitRepoPath' = [gitRepoPath EXCEPT ![c] = abs.path]
                 /\ pc' = [pc EXCEPT ![c] = "fetch"]
                 /\ UNCHANGED <<logged, resp, timer>>
  /\ UNCHANGED <<procVars, disk, route, after, body, req, cmdHistory, emptyVars>>

\* A clock tick: every context that is live and not yet past its deadline
\* has one tick less to go.
Tick ==
  /\ \E c \in Conns : timer[c] > 0
  /\ timer' = [c \in Conns |-> IF timer[c] > 0 THEN timer[c] - 1 ELSE timer[c]]
  /\ UNCHANGED <<procVars, disk, route, after, pc, body, req, gitRepoPath, cmdHistory, logged, resp,
                 emptyVars>>

\* --------------------------------------------------------------- /truncate

Reading == {"repo_read", "index_read", "unit_read"}

Looping == {"repo_loop", "index_loop", "unit_loop"}

LoopOf(p) ==
  CASE p \in {"repo_read", "repo_loop"} -> "repo_loop"
    [] p \in {"index_read", "index_loop"} -> "index_loop"
    [] p \in {"unit_read", "unit_loop"} -> "unit_loop"

\* Faulty variant of serveTruncate: the return after the first http.Error is
\* missing, and the index directory is emptied whatever became of the repo
\* directory.
serveTruncateNoReturn(c, err) ==
  /\ ret' = [ret EXCEPT ![c] = Append(@, [dir |-> dir[c], err |-> err])]
  /\ files' = [files EXCEPT ![c] = <<>>]
  /\ CASE LoopOf(pc[c]) = "repo_loop" ->
            /\ resp' = IF err
                         THEN [resp EXCEPT ![c] = [status |-> StatusInternalServerError,
                                                   msg |-> "Failed to delete repoDir"]]
                       ELSE resp
            /\ pc' = [pc EXCEPT ![c] = "index_read"]
            /\ dir' = [dir EXCEPT ![c] = opts.indexDir]
       [] LoopOf(pc[c]) = "index_loop" ->
            /\ resp' = [resp EXCEPT ![c] =
                          IF resp[c].status # 0 THEN resp[c]
                          ELSE IF err THEN [status |-> StatusInternalServerError,
                                            msg |-> "Failed to delete indexDir"]
                          ELSE [status |-> StatusOK, msg |-> ""]]
            /\ pc' = [pc EXCEPT ![c] = "done"]
            /\ dir' = dir
       [] LoopOf(pc[c]) = "unit_loop" ->
            /\ resp' = resp
            /\ pc' = [pc EXCEPT ![c] = "done"]
            /\ dir' = dir

\* serveTruncate when emptyDirectory returns: after the repo directory, 500
\* "Failed to delete repoDir" on an error and else emptyDirectory on the index
\* directory; after the index directory, 500 "Failed to delete indexDir" on
\* an error and else the handler returns.  (A direct caller of emptyDirectory
\* just has the result.)
serveTruncate(c, err) ==
  /\ ret' = [ret EXCEPT ![c] = Append(@, [dir |-> dir[c], err |-> err])]
  /\ files' = [files EXCEPT ![c] = <<>>]
  /\ CASE LoopOf(pc[c]) = "repo_loop" ->
            IF err
              THEN /\ resp' = [resp EXCEPT ![c] = HttpError("Failed to delete repoDir", StatusInternalServerError)]
                   /\ pc' = [pc EXCEPT ![c] = "done"]
                   /\ dir' = dir
              ELSE /\ resp' = resp
                   /\ pc' = [pc EXCEPT ![c] = "index_read"]
                   /\ dir' = [dir EXCEPT ![c] = opts.indexDir]
       [] LoopOf(pc[c]) = "index_loop" ->
            /\ resp' = [resp EXCEPT ![c] =
                          IF err THEN HttpError("Failed to delete indexDir", StatusInternalServerError)
                          ELSE HttpDefault]
            /\ pc' = [pc EXCEPT ![c] = "done"]
            /\ dir' = dir
       [] LoopOf(pc[c]) = "unit_loop" ->
            /\ resp' = resp
            /\ pc' = [pc EXCEPT ![c] = "done"]
            /\ dir' = dir

\* Faulty variant of emptyDirectoryRead: one os.RemoveAll of the directory in
\* place of the listing and the loop.
emptyDirectoryRemoveDir(c) ==
  /\ pc[c] \in Reading
  /\ IF OsResolve(dir[c]) \notin disk
       THEN serveTruncate(c, TRUE) /\ UNCHANGED <<disk, removed>>
     ELSE /\ disk' = disk \ {q \in disk : IsPrefix(OsResolve(dir[c]), q)}
          /\ removed' = [removed EXCEPT ![c] = @ \cup (disk \ disk')]
          /\ serveTruncate(c, FALSE)
  /\ UNCHANGED <<procVars, route, after, indexVars>>

\* emptyDirectory, its listing: return the error of ioutil.ReadDir, or go
\* through the files (none: return nil).
emptyDirectoryRead(c) ==
  /\ pc[c] \in Reading
  /\ LET listing == ReadDir(disk, dir[c])
     IN IF listing.err THEN serveTruncate(c, TRUE)
        ELSE IF listing.files = <<>> THEN serveTruncate(c, FALSE)
        ELSE /\ files' = [files EXCEPT ![c] = listing.files]
             /\ pc' = [pc EXCEPT ![c] = LoopOf(pc[c])]
             /\ UNCHANGED <<resp, dir, ret>>
  /\ UNCHANGED <<procVars, disk, route, after, indexVars, removed>>

\* What os.RemoveAll(path) may leave of the disk.
RemoveAll(d, path) == {RemoveAllOK(d, path)} \cup RemoveAllFailed(d, path)

\* Faulty variant of emptyDirectoryRemove: when a removal fails, what the
\* handler removed so far is put back.
emptyDirectoryRemoveRollback(c) ==
  /\ pc[c] \in Looping
  /\ LET filePath == FilepathJoin(dir[c], <<Head(files[c])>>)
     IN \E left \in RemoveAll(disk, filePath) :
          IF OsResolve(filePath) \in left
            THEN /\ disk' = disk \cup removed[c]
                 /\ removed' = removed
                 /\ serveTruncate(c, TRUE)
          ELSE /\ disk' = left
               /\ removed' = [removed EXCEPT ![c] = @ \cup (disk \ left)]
               /\ IF Len(files[c]) = 1 THEN serveTruncate(c, FALSE)
                  ELSE /\ files' = [files EXCEPT ![c] = Tail(@)]
                       /\ UNCHANGED <<pc, resp, dir, ret>>
  /\ UNCHANGED <<procVars, route, after, indexVars>>

\* Faulty variant of emptyDirectoryRemove: a removal that fails is passed
\* over and the loop goes on to the next file.
emptyDirectoryRemoveContinue(c) ==
  /\ pc[c] \in Looping
  /\ LET filePath == FilepathJoin(dir[c], <<Head(files[c])>>)
     IN \E left \in RemoveAll(disk, filePath) :
          /\ disk' = left
          /\ removed' = [removed EXCEPT ![c] = @ \cup (disk \ left)]
          /\ IF Len(files[c]) = 1 THEN serveTruncate(c, OsResolve(filePath) \in left)
             ELSE /\ files' = [files EXCEPT ![c] = Tail(@)]
                  /\ UNCHANGED <<pc, resp, dir, ret>>
  /\ UNCHANGED <<procVars, route, after, indexVars>>

\* emptyDirectory, one turn of its loop: os.RemoveAll the next file; return
\* its error, or go on (no file left: return nil).
emptyDirectoryRemove(c) ==
  /\ pc[c] \in Looping
  /\ LET filePath == FilepathJoin(dir[c], <<Head(files[c])>>)
     IN \E left \in RemoveAll(disk, filePath) :
          /\ disk' = left
          /\ removed' = [removed EXCEPT ![c] = @ \cup (disk \ left)]
          /\ IF OsResolve(filePath) \in left THEN serveTruncate(c, TRUE)
             ELSE IF Len(files[c]) = 1 THEN serveTruncate(c, FALSE)
             ELSE /\ files' = [files EXCEPT ![c] = Tail(@)]
                  /\ UNCHANGED <<pc, resp, dir, ret>>
  /\ UNCHANGED <<procVars, route, after, indexVars>>

\* ------------------------------------------------------- the specification

Next ==
  \/ ParseOptions
  \/ createMissingDirectories
  \/ startIndexingApi
  \/ Tick
  \/ \E c \in Conns :
       \/ Receive(c)
       \/ serveIndex(c)
       \/ executeCmd(c)
       \/ CommandExit(c)
       \/ CommandKilled(c)
       \/ PipesClosed(c)
       \/ ResolvePath(c)
       \/ emptyDirectoryRead(c)
       \/ emptyDirectoryRemove(c)

Spec == Init /\ [][Next]_vars

\* ------------------------------------------------ /index requests, fairly

\* The bodies of the requests followed to their answers: one accepted, one
\* rejected.
LiveBodies == {Body100, BodyExtraField}

\* The command line of the server followed: a relative -data_dir, under
\* which resolving the path can fail.
LiveFlags == [data_dir |-> <<"data">>, index_dir |-> <<"", "idx">>, index_timeout |-> IndexTimeoutFlag]

\* The server has started on an empty disk and listens.
InitLive ==
  /\ flags = LiveFlags
  /\ phase = "serving"
  /\ opts = parseOptions(LiveFlags)
  /\ disk = MkdirAll(MkdirAll(MkdirAll({}, opts.dataDir), opts.indexDir), opts.repoDir)
  /\ InitConns

ReceiveIndex(c) == Receive(c) /\ route'[c] = "/index" /\ body'[c] \in LiveBodies

NextLive ==
  \/ Tick
  \/ \E c \in Conns :
       \/ ReceiveIndex(c)
       \/ serveIndex(c)
       \/ executeCmd(c)
       \/ CommandExit(c)
       \/ CommandKilled(c)
       \/ PipesClosed(c)
       \/ ResolvePath(c)

\* What the scheduling gives: time passes; the goroutine of a handler that
\* can take its next step takes it; the process of a command still running
\* at the deadline is killed; and the output pipes of a process that has
\* ended get closed.  A command need not exit by itself.
Fairness ==
  /\ WF_vars(Tick)
  /\ \A c \in Conns :
       /\ WF_vars(serveIndex(c))
       /\ WF_vars(executeCmd(c))
       /\ WF_vars(ResolvePath(c))
       /\ WF_vars(CommandKilled(c))
       /\ WF_vars(PipesClosed(c))

SpecLive == InitLive /\ [][NextLive]_vars /\ Fairness

\* ------------------------------------------ emptyDirectory called directly

\* The directory a direct call is made on, and one that does not exist.
TestDir == <<"", "tmp", "x">>

NoSuchDir == <<"", "tmp", "nosuch">>

TestEntries ==
  {TestDir \o <<"a">>, TestDir \o <<"b">>, TestDir \o <<"c">>, TestDir \o <<"c", "d">>,
   TestDir \o <<"d">>}

\* The disks of a direct call: the directory missing, or there with any of
\* a, b, c, c/d, d in it.
TestDisks ==
  {{}} \cup {Ancestors(TestDir) \cup s :
               s \in {t \in SUBSET TestEntries :
                        (TestDir \o <<"c", "d">>) \in t => (TestDir \o <<"c">>) \in t}}

\* A caller about to call emptyDirectory(d) on connection slot 1; no server.
InitEmptyDirectory ==
  /\ flags \in {f \in Flags : f.data_dir = <<>>}
  /\ phase = "unit"
  /\ opts = NoOptions
  /\ disk \in TestDisks
  /\ \E d \in {TestDir, NoSuchDir} :
       /\ route = [c \in Conns |-> IF c = 1 THEN "unit" ELSE ""]
       /\ pc = [c \in Conns |-> IF c = 1 THEN "unit_read" ELSE "idle"]
       /\ dir = [c \in Conns |-> IF c = 1 THEN d ELSE NoPath]
  /\ after = [c \in Conns |-> {}]
  /\ body = [c \in Conns |-> <<>>]
  /\ req = [c \in Conns |-> ZeroRequest]
  /\ timer = [c \in Conns |-> NoDeadline]
  /\ gitRepoPath = [c \in Conns |-> NoPath]
  /\ cmdHistory = [c \in Conns |-> <<>>]
  /\ logged = [c \in Conns |-> <<>>]
  /\ resp = [c \in Conns |-> NoResp]
  /\ files = [c \in Conns |-> <<>>]
  /\ removed = [c \in Conns |-> {}]
  /\ ret = [c \in Conns |-> <<>>]

NextEmptyDirectory == \E c \in Conns : emptyDirectoryRead(c) \/ emptyDirectoryRemove(c)

SpecEmptyDirectory == InitEmptyDirectory /\ [][NextEmptyDirectory]_vars

\* ------------------------------------------------- the startup on its own

\* The command lines of the startup on its own: -data_dir empty, the root,
\* absolute, relative; -index_dir empty, inside the data directory, outside
\* it, relative.
StartupFlags ==
  {[data_dir |-> d, index_dir |-> i, index_timeout |-> IndexTimeoutFlag] :
     d \in {<<>>, <<"">>, <<"", "data">>, <<"data">>, <<"", "var", "lib">>},
     i \in {<<>>, <<"", "idx">>, <<"", "data", "index">>, <<"", "data", "shards">>, <<"idx">>}}

\* The process starts on an empty disk.
InitStartup ==
  /\ flags \in StartupFlags
  /\ phase = "parse"
  /\ opts = NoOptions
  /\ disk = {}
  /\ InitConns

NextStartup == ParseOptions \/ createMissingDirectories \/ startIndexingApi

SpecStartup == InitStartup /\ [][NextStartup]_vars

\* ------------------------------------------- the repository path by RepoID

\* The RepoIDs followed, as the digits of their JSON numbers: 0, 1, 10, 100,
\* 65537 (1 beyond 16 bits) and 2^32 - 1.
PathIDs ==
  {<<0>>, <<1>>, <<1, 0>>, <<1, 0, 0>>, <<6, 5, 5, 3, 7>>, <<4, 2, 9, 4, 9, 6, 7, 2, 9, 5>>}

\* Each of them with each of two clone URLs.
PathBodies ==
  {Object(<<Str("CloneURL"), Str(u), Str("RepoID"), NumTok(FALSE, n, FALSE)>>) :
     u \in {URL1, URL2}, n \in PathIDs}

\* The server listens and has just accepted an /index request on every
\* connection, each with one of the bodies given.
Accepted(bodies) ==
  /\ flags \in {f \in Flags : f.data_dir # <<>>}
  /\ phase = "serving"
  /\ opts = parseOptions(flags)
  /\ disk = MkdirAll(MkdirAll(MkdirAll({}, opts.dataDir), opts.indexDir), opts.repoDir)
  /\ route = [c \in Conns |-> "/index"]
  /\ after = [c \in Conns |-> {}]
  /\ pc = [c \in Conns |-> "decode"]
  /\ body \in [Conns -> bodies]
  /\ req = [c \in Conns |-> ZeroRequest]
  /\ timer = [c \in Conns |-> NoDeadline]
  /\ gitRepoPath = [c \in Conns |-> NoPath]
  /\ cmdHistory = [c \in Conns |-> <<>>]
  /\ logged = [c \in Conns |-> <<>>]
  /\ resp = [c \in Conns |-> NoResp]
  /\ dir = [c \in Conns |-> NoPath]
  /\ files = [c \in Conns |-> <<>>]
  /\ removed = [c \in Conns |-> {}]
  /\ ret = [c \in Conns |-> <<>>]

InitRepoPath == Accepted(PathBodies)

\* The clone command of a run.
executeClone(c) == pc[c] = "clone" /\ executeCmd(c)

\* Each run up to the path it resolves.
NextRepoPath ==
  \E c \in Conns :
    \/ serveIndex(c)
    \/ executeClone(c)
    \/ CommandExit(c)
    \/ PipesClosed(c)
    \/ ResolvePath(c)

SpecRepoPath == InitRepoPath /\ [][NextRepoPath]_vars

\* ------------------------------------------------- the range of the RepoID

\* The numbers sent as RepoID, as their digits: 1, 100, 2^32 - 1, 2^32,
\* 2^32 + 1, 2^32 + 100 and 99999999999, each as it stands and with a minus
\* sign.
RangeDigits ==
  {<<1>>, <<1, 0, 0>>, <<4, 2, 9, 4, 9, 6, 7, 2, 9, 5>>, <<4, 2, 9, 4, 9, 6, 7, 2, 9, 6>>,
   <<4, 2, 9, 4, 9, 6, 7, 2, 9, 7>>, <<4, 2, 9, 4, 9, 6, 7, 3, 9, 6>>,
   <<9, 9, 9, 9, 9, 9, 9, 9, 9, 9, 9>>}

RangeBodies ==
  {Object(<<Str("CloneURL"), Str(URL1), Str("RepoID"), NumTok(neg, n, FALSE)>>) :
     neg \in BOOLEAN, n \in RangeDigits}

InitRepoID == Accepted(RangeBodies)

SpecRepoID == InitRepoID /\ [][NextRepoPath]_vars

\* ================================================================= claims

\* What the claims speak of, read off the state.

IndexConns == {c \in Conns : route[c] = "/index"}

TruncateConns == {c \in Conns : route[c] = "/truncate"}

Argvs(c) == [k \in 1..Len(cmdHistory[c]) |-> cmdHistory[c][k].argv]

Lines(c) == {logged[c][k].line : k \in 1..Len(logged[c])}

\* The request was decoded and indexRepository entered.
Decoded(c) == c \in IndexConns /\ pc[c] \notin {"idle", "decode"} /\ "Error decoding index request" \notin Lines(c)

\* Resolving the path failed in this run.
PathFailed(c) == c \in IndexConns /\ "error loading git repo path" \in Lines(c)

\* The path was resolved in this run.
PathResolved(c) == c \in IndexConns /\ gitRepoPath[c] # NoPath

\* The texts expected in the command lines, written out for the command
\* lines and bodies followed.
ExpectedRepoDir == IF flags.data_dir = <<"", "data">> THEN "/data/repos" ELSE "data/repos"

ExpectedIndexDir == IF flags.index_dir = <<>> THEN "/data/index" ELSE "/idx"

ExpectedID(c) == IF body[c] = BodyMaxTrailing THEN "4294967295" ELSE "100"

ExpectedURL(c) == IF body[c] = BodyFolded THEN URL2 ELSE URL1

ExpectedGitRepoPath(c) ==
  (IF flags.data_dir = <<"", "data">> THEN "/data/repos/" ELSE "/srv/data/repos/")
    \o ExpectedID(c) \o ".git"

ExpectedClone(c) ==
  <<"zoekt-git-clone", "-dest", ExpectedRepoDir, "-name", ExpectedID(c), "-repoid",
    ExpectedID(c), ExpectedURL(c)>>

ExpectedFetch(c) == <<"git", "-C", ExpectedGitRepoPath(c), "fetch">>

ExpectedIndex(c) == <<"zoekt-git-index", "-index", ExpectedIndexDir, ExpectedGitRepoPath(c)>>

ExpectedHistory(c) == <<ExpectedClone(c), ExpectedFetch(c), ExpectedIndex(c)>>

\* C1: a decoded request whose path resolves gets exactly three executor
\* calls, clone, then git fetch, then the index build, with the arguments of
\* the specification (RepoID in decimal, the one resolved path in calls 2 and
\* 3); at every moment the calls made so far are the first of these three,
\* and nothing else is ever called.
C1_ThreeCallsInOrder ==
  \A c \in IndexConns :
    /\ Len(cmdHistory[c]) <= 3
    /\ \A k \in 1..Len(cmdHistory[c]) : Argvs(c)[k] = ExpectedHistory(c)[k]
    /\ (pc[c] = "done" /\ Decoded(c) /\ PathResolved(c)) => Argvs(c) = ExpectedHistory(c)

C1_Witness ==
  \E c \in IndexConns :
    /\ pc[c] = "done" /\ PathResolved(c) /\ Len(cmdHistory[c]) = 3
    /\ req[c].RepoID = U32(65535, 65535)
    /\ ~IsAbs(opts.repoDir)

\* C2: a decoded request whose path resolves is answered 200 with an empty
\* body, whatever became of its three commands, and nothing is written
\* before the index build has returned.
C2_Always200 ==
  \A c \in IndexConns :
    (Decoded(c) /\ ~PathFailed(c)) =>
      IF pc[c] = "done" THEN PathResolved(c) /\ resp[c] = [status |-> 200, msg |-> ""]
      ELSE resp[c] = NoResp

C2_Witness ==
  \E c \in IndexConns :
    /\ pc[c] = "done" /\ resp[c].status = 200 /\ Len(cmdHistory[c]) = 3
    /\ ~cmdHistory[c][1].started
    /\ cmdHistory[c][2].started /\ cmdHistory[c][2].failed
    /\ cmdHistory[c][3].failed

\* The call k of the run has returned.
Returned(c, k) == k <= Len(cmdHistory[c]) /\ cmdHistory[c][k].returned

Rejectable == MalformedBodies \cup {BodyExtraField}

\* C4: a body with an unrecognized field or one that is not well-formed is
\* answered 400 "JSON parser error", and no command, not even the clone, is
\* invoked for it.
C4_BadBodyRejected ==
  \A c \in IndexConns :
    (body[c] \in Rejectable /\ pc[c] # "decode") =>
      /\ pc[c] = "done"
      /\ resp[c] = [status |-> 400, msg |-> "JSON parser error"]
      /\ cmdHistory[c] = <<>>

\* C5: when the absolute path of {repoDir}/{repoID}.git cannot be resolved,
\* the request is answered 400 and the run ends: neither git fetch nor the
\* index build is invoked in it, then or later.
C5_PathFailureEndsRun ==
  \A c \in IndexConns :
    PathFailed(c) =>
      /\ pc[c] = "done"
      /\ resp[c] = [status |-> 400, msg |-> "JSON parser error"]
      /\ gitRepoPath[c] = NoPath
      /\ \A k \in 1..Len(cmdHistory[c]) : Argvs(c)[k][1] \notin {"git", "zoekt-git-index"}

C5_Witness ==
  \E c \in IndexConns : PathFailed(c) /\ resp[c].status = 400 /\ ~IsAbs(opts.repoDir)

\* C6, as stated: in a run whose path resolution fails no external command
\* has been invoked by the time the 400 is sent.
C6_NoCommandBefore400 ==
  \A c \in IndexConns : (PathFailed(c) /\ resp[c].status = 400) => cmdHistory[c] = <<>>

\* C6, amended: in a run whose path resolution fails exactly one external
\* command has been invoked by the time the 400 is sent, the clone, and it
\* has returned; no fetch and no index build.
C6_OnlyCloneBefore400 ==
  \A c \in IndexConns :
    (PathFailed(c) /\ resp[c].status = 400) =>
      /\ Len(cmdHistory[c]) = 1
      /\ Argvs(c)[1] = ExpectedClone(c)
      /\ Returned(c, 1)

C6_Witness ==
  \E c \in IndexConns :
    /\ PathFailed(c) /\ resp[c].status = 400
    /\ Len(cmdHistory[c]) = 1 /\ cmdHistory[c][1].started /\ ~cmdHistory[c][1].failed

\* C7: a stage invoked once the deadline of its run has passed launches no
\* subprocess, and the deadline once passed stays passed for every later
\* stage of the run.
C7_NoStartAfterExpiry ==
  \A c \in IndexConns :
    \A k \in 1..Len(cmdHistory[c]) :
      cmdHistory[c][k].expired =>
        /\ ~cmdHistory[c][k].started
        /\ cmdHistory[c][k].failed
        /\ \A j \in k..Len(cmdHistory[c]) : cmdHistory[c][j].expired
        /\ Returned(c, k)

C7_Witness ==
  \E c \in IndexConns :
    /\ Len(cmdHistory[c]) = 3
    /\ cmdHistory[c][1].started /\ ~cmdHistory[c][1].expired
    /\ cmdHistory[c][2].expired /\ ~cmdHistory[c][2].started
    /\ cmdHistory[c][3].expired /\ ~cmdHistory[c][3].started

\* The paths below a directory, the directory excluded.
Below(d) == {q \in disk : IsPrefix(OsResolve(d), q)} \ {OsResolve(d)}

RepoCall(err) == [dir |-> opts.repoDir, err |-> err]

IndexCall(err) == [dir |-> opts.indexDir, err |-> err]

\* C8: /truncate empties the repo directory first and the index directory
\* second, answering nothing in between; when emptying the repo directory
\* fails it answers 500 "Failed to delete repoDir" and has neither listed nor
\* removed anything of the index directory; when emptying the index
\* directory fails it answers 500 "Failed to delete indexDir"; it answers 200
\* exactly when both calls returned nil.
C8_TruncateOrder ==
  \A c \in TruncateConns :
    /\ pc[c] \in {"repo_read", "repo_loop"} =>
         ret[c] = <<>> /\ dir[c] = opts.repoDir /\ resp[c] = NoResp
    /\ pc[c] \in {"index_read", "index_loop"} =>
         ret[c] = <<RepoCall(FALSE)>> /\ dir[c] = opts.indexDir /\ resp[c] = NoResp
    /\ ret[c] \in {<<>>, <<RepoCall(TRUE)>>} =>
         \A q \in removed[c] : ~IsPrefix(OsResolve(opts.indexDir), q)
    /\ pc[c] = "done" =>
         \/ ret[c] = <<RepoCall(TRUE)>>
              /\ resp[c] = [status |-> 500, msg |-> "Failed to delete repoDir"]
         \/ ret[c] = <<RepoCall(FALSE), IndexCall(TRUE)>>
              /\ resp[c] = [status |-> 500, msg |-> "Failed to delete indexDir"]
         \/ ret[c] = <<RepoCall(FALSE), IndexCall(FALSE)>>
              /\ resp[c] = [status |-> 200, msg |-> ""]

C8_Witness ==
  \E c \in TruncateConns :
    /\ pc[c] = "done"
    /\ resp[c] = [status |-> 500, msg |-> "Failed to delete repoDir"]
    /\ removed[c] # {}
    /\ Below(opts.indexDir) # {}

\* C9: a /truncate received after another /truncate was answered 200, with no
\* /index request at all and both directories there, removes nothing, is
\* answered 200, and leaves both directories existing and empty.
C9_TruncateTwice ==
  \A a \in TruncateConns : \A b \in TruncateConns :
    (a \in after[b] /\ resp[a].status = 200 /\ IndexConns = {}) =>
      /\ removed[b] = {}
      /\ pc[b] \notin Looping
      /\ pc[b] = "done" =>
           /\ resp[b] = [status |-> 200, msg |-> ""]
           /\ OsResolve(opts.repoDir) \in disk /\ Below(opts.repoDir) = {}
           /\ OsResolve(opts.indexDir) \in disk /\ Below(opts.indexDir) = {}

C9_Witness ==
  \E a \in TruncateConns : \E b \in TruncateConns :
    /\ a \in after[b] /\ resp[a].status = 200 /\ Cardinality(removed[a]) = 5
    /\ pc[b] = "done" /\ resp[b].status = 200

\* The direct calls of emptyDirectory.
UnitConns == {c \in Conns : route[c] = "unit"}

\* C10: when emptyDirectory(dir) has returned nil, dir exists and nothing is
\* below it, files and subdirectory trees alike; on a path that does not
\* exist it returns an error and removes nothing.
C10_EmptyDirectory ==
  \A c \in UnitConns :
    /\ (pc[c] = "done" /\ ret[c] = <<[dir |-> dir[c], err |-> FALSE]>>) =>
         dir[c] \in disk /\ Below(dir[c]) = {}
    /\ dir[c] \notin disk =>
         /\ removed[c] = {}
         /\ pc[c] = "done" => ret[c] = <<[dir |-> dir[c], err |-> TRUE]>>
    /\ pc[c] = "done" => Len(ret[c]) = 1

C10_Witness ==
  \E c \in UnitConns :
    /\ pc[c] = "done" /\ ret[c] = <<[dir |-> TestDir, err |-> FALSE]>>
    /\ removed[c] = TestEntries

\* The names the external commands give to what they create: the bare
\* repository of a clone and the shard of an index build, for the RepoIDs
\* followed.
CommandNames ==
  {"100.git", "4294967295.git", "100_v16.00000.zoekt", "4294967295_v16.00000.zoekt"}

\* The path is, or lies in, something an external command created.
FromCommand(q) == \E k \in 1..Len(q) : q[k] \in CommandNames

\* C11: when /truncate has emptied the repo directory and then failed on the
\* index directory, it answers 500 and undoes nothing: the repo directory is
\* there and holds nothing, and no path the handler removed is back, other
\* than what a clone or index build of a concurrent /index request created
\* since.
C11_NoRollback ==
  \A c \in TruncateConns :
    ret[c] = <<RepoCall(FALSE), IndexCall(TRUE)>> =>
      /\ resp[c] = [status |-> 500, msg |-> "Failed to delete indexDir"]
      /\ OsResolve(opts.repoDir) \in disk
      /\ \A q \in Below(opts.repoDir) \cup (removed[c] \cap disk) : FromCommand(q)

C11_Witness ==
  \E c \in TruncateConns :
    /\ ret[c] = <<RepoCall(FALSE), IndexCall(TRUE)>>
    /\ Cardinality(removed[c]) = 4
    /\ Below(opts.repoDir) = {}
    /\ Below(opts.indexDir) # {}

\* The children a direct call can find in its directory, in the order of
\* their names.
TestOrder == <<"a", "b", "c", "d">>

TestChild(k) == TestDir \o <<TestOrder[k]>>

\* The disk as it was when the direct call of c was made (nothing else
\* changes it).
Before(c) == disk \cup removed[c]

\* All of what was at or below the path when the call was made.
Tree(c, q) == {r \in Before(c) : IsPrefix(q, r)}

\* C12: emptyDirectory removes the children in the order of their names,
\* one after the other, and stops at the first removal that fails and returns
\* the error: nothing of a child is removed before every child listed ahead
\* of it is gone; a child that is still there after something below it was
\* removed ends the call with an error; when the call has returned an error
\* the children ahead of the failing one are gone, the failing one is there,
\* every later one is there untouched, and so is the directory.
C12_StopAtFirstFailure ==
  \A c \in UnitConns :
    (dir[c] = TestDir /\ TestDir \in Before(c)) =>
      /\ TestDir \in disk
      /\ \A j \in DOMAIN TestOrder : \A k \in DOMAIN TestOrder :
           (j < k /\ removed[c] \cap Tree(c, TestChild(k)) # {}) =>
             Tree(c, TestChild(j)) \cap disk = {}
      /\ \A k \in DOMAIN TestOrder :
           (TestChild(k) \in disk /\ removed[c] \cap Tree(c, TestChild(k)) # {}) =>
             pc[c] = "done" /\ ret[c] = <<[dir |-> TestDir, err |-> TRUE]>>
      /\ (pc[c] = "done" /\ ret[c] = <<[dir |-> TestDir, err |-> TRUE]>>) =>
           \E k \in DOMAIN TestOrder :
             /\ TestChild(k) \in disk
             /\ \A j \in DOMAIN TestOrder : j < k => TestChild(j) \notin disk
             /\ \A j \in DOMAIN TestOrder : j > k => Tree(c, TestChild(j)) \subseteq disk

C12_Witness ==
  \E c \in UnitConns :
    /\ pc[c] = "done" /\ ret[c] = <<[dir |-> TestDir, err |-> TRUE]>>
    /\ removed[c] = {TestDir \o <<"a">>, TestDir \o <<"b">>, TestDir \o <<"c", "d">>}
    /\ TestDir \o <<"c">> \in disk
    /\ TestDir \o <<"d">> \in disk

\* C13: the server listens only once the data, index and repo directories
\* all exist; a connection is accepted and a request handled only by the
\* listening server; and a process that ended at startup (a directory could
\* not be created, or the listener failed) has never accepted one.
C13_DirectoriesBeforeListen ==
  /\ phase \in {"listen", "serving"} =>
       /\ OsResolve(opts.dataDir) \in disk
       /\ OsResolve(opts.indexDir) \in disk
       /\ OsResolve(opts.repoDir) \in disk
  /\ \A c \in Conns : (route[c] # "" \/ pc[c] # "idle") => phase = "serving"
  /\ phase \in {"parse", "mkdir1", "mkdir2", "mkdir3", "listen", "fatal"} =>
       \A c \in Conns : route[c] = "" /\ pc[c] = "idle" /\ resp[c] = NoResp

C13_Witness ==
  /\ phase = "serving"
  /\ ~IsAbs(opts.dataDir)
  /\ {<<"", "srv", "data">>, <<"", "srv", "data", "repos">>, <<"", "idx">>} \subseteq disk
  /\ \E c \in Conns : pc[c] = "done" /\ route[c] = "/truncate"

\* The text of a directory path with the separator that precedes a name
\* joined to it.
WithSlash(text) == IF text = "/" THEN "/" ELSE text \o "/"

\* C14: once parseOptions has run, the process has ended if -data_dir was
\* empty, and otherwise dataDir is -data_dir, repoDir is {dataDir}/repos,
\* indexDir is {dataDir}/index when -index_dir was empty and -index_dir as
\* given when not; so repoDir lies below dataDir, and so does indexDir when
\* -index_dir was empty.
C14_ParseOptions ==
  phase # "parse" =>
    IF flags.data_dir = <<>> THEN phase = "fatal" /\ opts = NoOptions /\ disk = {}
    ELSE /\ opts.dataDir = flags.data_dir
         /\ PathString(opts.repoDir) = WithSlash(PathString(flags.data_dir)) \o "repos"
         /\ IsPrefix(opts.dataDir, opts.repoDir) /\ opts.repoDir # opts.dataDir
         /\ IF flags.index_dir = <<>>
              THEN /\ PathString(opts.indexDir) = WithSlash(PathString(flags.data_dir)) \o "index"
                   /\ IsPrefix(opts.dataDir, opts.indexDir) /\ opts.indexDir # opts.dataDir
            ELSE opts.indexDir = flags.index_dir

C14_Witness ==
  /\ phase = "serving"
  /\ flags.data_dir = <<"", "var", "lib">> /\ flags.index_dir = <<"idx">>
  /\ PathString(opts.repoDir) = "/var/lib/repos"
  /\ PathString(opts.indexDir) = "idx"
  /\ ~IsPrefix(opts.dataDir, opts.indexDir)

\* The state of the request of a connection in the state machine of /index.
IndexState(c) ==
  CASE pc[c] = "idle" -> "None"
    [] pc[c] = "decode" -> "Decoding"
    [] pc[c] \in {"clone", "clone_run", "clone_drain"} -> "Cloning"
    [] pc[c] = "resolve" -> "Resolving"
    [] pc[c] \in {"fetch", "fetch_run", "fetch_drain"} -> "Fetching"
    [] pc[c] \in {"index", "index_run", "index_drain"} -> "Indexing"
    [] pc[c] = "done" /\ resp[c].status = 200 -> "Responded200"
    [] pc[c] = "done" /\ resp[c].status = 400 /\ cmdHistory[c] = <<>> -> "Rejected"
    [] pc[c] = "done" /\ resp[c].status = 400 /\ cmdHistory[c] # <<>> -> "Responded400"
    [] OTHER -> "Unknown"

IndexTransitions ==
  {<<"None", "Decoding">>, <<"Decoding", "Rejected">>, <<"Decoding", "Cloning">>,
   <<"Cloning", "Resolving">>, <<"Resolving", "Responded400">>,
   <<"Resolving", "Fetching">>, <<"Fetching", "Indexing">>,
   <<"Indexing", "Responded200">>}

IndexTerminal == {"Rejected", "Responded400", "Responded200"}

\* The commands a request has invoked by the time it is in a state.
CallsIn(state) ==
  CASE state \in {"None", "Decoding", "Rejected"} -> {0}
    [] state = "Cloning" -> {0, 1}
    [] state \in {"Resolving", "Responded400"} -> {1}
    [] state = "Fetching" -> {1, 2}
    [] state = "Indexing" -> {2, 3}
    [] state = "Responded200" -> {3}
    [] OTHER -> {}

IndexStateOK(c) ==
  /\ IndexState(c) # "Unknown"
  /\ Len(cmdHistory[c]) \in CallsIn(IndexState(c))
  /\ (resp[c] # NoResp) = (IndexState(c) \in IndexTerminal)
  /\ IndexState(c) = "Responded200" =>
       /\ resp[c].msg = ""
       /\ Argvs(c)[3][1] = "zoekt-git-index" /\ Returned(c, 3)

IndexStep(c) ==
  /\ IndexState(c)' # IndexState(c) => <<IndexState(c), IndexState(c)'>> \in IndexTransitions
  /\ resp[c] # NoResp => resp'[c] = resp[c]
  /\ Len(cmdHistory'[c]) \in {Len(cmdHistory[c]), Len(cmdHistory[c]) + 1}

\* C15: an /index request moves only along Received/Decoding -> {Rejected |
\* Cloning -> Resolving -> {Responded400 | Fetching -> Indexing ->
\* Responded200}}: each state holds the number of invoked commands that
\* belongs to it (no stage is skipped or repeated), no step goes back or out
\* of a terminal state, 200 is answered only after the index build has
\* returned, and the one response of a request is written on entering its
\* terminal state and never changed.
C15_IndexStateMachine ==
  /\ [](\A c \in IndexConns : IndexStateOK(c))
  /\ [][\A c \in Conns : route'[c] = "/index" => IndexStep(c)]_vars

C15_Witness ==
  \E c \in IndexConns : \E d \in IndexConns :
    IndexState(c) = "Responded400" /\ IndexState(d) = "Responded200"

\* The calls of a request whose process is alive.
RunningCalls(c) == {k \in 1..Len(cmdHistory[c]) : cmdHistory[c][k].running}

\* C16: within one /index request at most one external command is running
\* at any time, and a stage is invoked only when the executor call of every
\* earlier stage has returned and its process has ended.
C16_OneCommandAtATime ==
  \A c \in IndexConns :
    /\ Cardinality(RunningCalls(c)) <= 1
    /\ \A k \in 1..Len(cmdHistory[c]) :
         /\ cmdHistory[c][k].running => ~cmdHistory[c][k].returned /\ cmdHistory[c][k].started
         /\ k < Len(cmdHistory[c]) => cmdHistory[c][k].returned /\ ~cmdHistory[c][k].running
    /\ pc[c] \in {"clone", "resolve", "fetch", "index", "done"} => RunningCalls(c) = {}

C16_Witness ==
  \E c \in IndexConns :
    /\ RunningCalls(c) = {3}
    /\ cmdHistory[c][1].started /\ cmdHistory[c][1].returned
    /\ cmdHistory[c][2].started /\ cmdHistory[c][2].returned

\* The states of a request in which its pipeline run is under way.
InRun == {"Cloning", "Resolving", "Fetching", "Indexing"}

DeadlineOK(c) ==
  /\ IndexState(c) \in {"None", "Decoding", "Rejected"} => timer[c] = NoDeadline
  /\ IndexState(c) \in InRun => timer[c] \in 0..opts.indexTimeout
  /\ IndexState(c) \in {"Responded400", "Responded200"} => timer[c] = Cancelled

DeadlineStep(c) ==
  /\ (timer[c] = NoDeadline /\ timer'[c] # NoDeadline) =>
       /\ timer'[c] = opts.indexTimeout
       /\ IndexState(c) = "Decoding" /\ IndexState(c)' = "Cloning"
  /\ timer[c] > 0 => timer'[c] \in {timer[c], timer[c] - 1, Cancelled}
  /\ timer[c] = 0 => timer'[c] \in {0, Cancelled}
  /\ timer[c] = Cancelled => timer'[c] = Cancelled
  /\ (timer'[c] # timer[c] /\ (timer[c] = NoDeadline \/ timer'[c] = Cancelled)) =>
       \A d \in Conns \ {c} : timer'[d] = timer[d]

\* C17: a pipeline run has one deadline, created when the run is entered
\* with the whole of indexTimeout to go; through the three stages it only
\* runs down, is never extended or set again, and once passed stays passed
\* until the run returns; creating or releasing the deadline of one request
\* leaves those of the others as they are.
C17_OneDeadline ==
  /\ [](\A c \in IndexConns : DeadlineOK(c))
  /\ [][\A c \in Conns : DeadlineStep(c)]_vars

C17_Witness ==
  \E c \in IndexConns : \E d \in IndexConns :
    /\ timer[c] = 0 /\ IndexState(c) = "Fetching"
    /\ timer[d] = opts.indexTimeout /\ opts.indexTimeout > 0 /\ IndexState(d) = "Cloning"

\* C18: every /index request received is eventually answered, given that a
\* command still running at the deadline is killed and that the output pipes
\* of an ended command get closed; the handler waits on nothing else.
C18_EventuallyAnswered ==
  \A c \in Conns : (route[c] = "/index") ~> (pc[c] = "done" /\ resp[c] # NoResp)

C18_Witness ==
  \E c \in IndexConns :
    /\ pc[c] = "done" /\ resp[c].status = 200
    /\ \A k \in 1..3 : cmdHistory[c][k].failed
    /\ cmdHistory[c][1].started /\ cmdHistory[c][2].expired

\* The repository path a call is made on: the last argument of git fetch's
\* -C and of the index build.
PathArg(argv) == IF argv[1] = "git" THEN argv[3] ELSE argv[Len(argv)]

\* C19: nothing keeps the requests for one RepoID apart: their clones have
\* the same destination and name, and every fetch and index build of theirs
\* is made on the same path {repoDir}/{repoID}.git, whichever request makes
\* it and whatever the others are doing; and two of them do run commands on
\* that path at the same time.
C19_SharedPath ==
  \A c \in IndexConns : \A d \in IndexConns :
    (Decoded(c) /\ Decoded(d) /\ req[c].RepoID = req[d].RepoID) =>
      /\ (cmdHistory[c] # <<>> /\ cmdHistory[d] # <<>>) =>
           SubSeq(Argvs(c)[1], 1, 7) = SubSeq(Argvs(d)[1], 1, 7)
      /\ \A k \in 2..Len(cmdHistory[c]) : \A j \in 2..Len(cmdHistory[d]) :
           PathArg(Argvs(c)[k]) = PathArg(Argvs(d)[j])
      /\ (PathResolved(c) /\ PathResolved(d)) => gitRepoPath[c] = gitRepoPath[d]

\* Two requests for RepoID 100, one with its index build running and the
\* other with its fetch running, both on /data/repos/100.git.
C19_Witness ==
  \E c \in IndexConns : \E d \in IndexConns :
    /\ c # d
    /\ req[c].RepoID = req[d].RepoID
    /\ pc[c] = "index_run" /\ RunningCalls(c) = {3}
    /\ Argvs(c)[3] = <<"zoekt-git-index", "-index", "/data/index", "/data/repos/100.git">>
    /\ pc[d] = "fetch_run" /\ RunningCalls(d) = {2}
    /\ Argvs(d)[2] = <<"git", "-C", "/data/repos/100.git", "fetch">>

RECURSIVE CommandLog(_, _)
\* The lines the calls k, k+1, ... of a history should have left: for each
\* its "run" line and, once it has returned having failed, its "failed" line.
CommandLog(h, k) ==
  IF k > Len(h) THEN <<>>
  ELSE <<[line |-> "run", argv |-> h[k].argv]>>
         \o (IF h[k].returned /\ h[k].failed
               THEN <<[line |-> "failed", argv |-> h[k].argv]>>
             ELSE <<>>)
         \o CommandLog(h, k + 1)

IsCommandLine(l) == l.line \in {"run", "failed"}

\* C20: the executor logs one "run" line with the argument vector for each
\* invocation, before the command runs, and one "failed" line after it if
\* and only if cmd.Run returned an error (the command did not start, or
\* exited non-zero, or was killed); it hands no error to its caller, and the
\* service goes on serving.
C20_CommandLog ==
  \A c \in IndexConns :
    /\ SelectSeq(logged[c], IsCommandLine) = CommandLog(cmdHistory[c], 1)
    /\ \A k \in 1..Len(cmdHistory[c]) :
         /\ ~cmdHistory[c][k].started => cmdHistory[c][k].failed /\ cmdHistory[c][k].returned
         /\ cmdHistory[c][k].returned =>
              IndexState(c) \notin {"None", "Decoding", "Rejected", "Unknown"}
    /\ logged[c] # <<>> => phase = "serving"

C20_Witness ==
  \E c \in IndexConns :
    /\ pc[c] = "done" /\ Len(cmdHistory[c]) = 3
    /\ cmdHistory[c][1].started /\ ~cmdHistory[c][1].failed
    /\ cmdHistory[c][2].started /\ cmdHistory[c][2].failed
    /\ ~cmdHistory[c][3].started
    /\ Len(SelectSeq(logged[c], IsCommandLine)) = 5

RECURSIVE DigitText(_)
\* The digits of a JSON number as they stand in the body.
DigitText(digits) ==
  IF Len(digits) = 0 THEN "" ELSE Digit(Head(digits)) \o DigitText(Tail(digits))

\* The RepoID as the request body spells it.
SentID(c) == DigitText(body[c][5].digits)

\* The CloneURL as the request body spells it.
SentURL(c) == body[c][3].s

\* C21: under one repoDir the repository path of a request is
\* {repoDir}/{RepoID}.git made absolute, whatever the CloneURL: two requests
\* with the same RepoID get the same path, and two requests with different
\* RepoIDs get different paths.
C21_PathByRepoID ==
  \A c \in IndexConns : \A d \in IndexConns :
    PathResolved(c) /\ PathResolved(d) =>
      /\ PathString(gitRepoPath[c]) =
           PathString(OsResolve(opts.repoDir)) \o "/" \o SentID(c) \o ".git"
      /\ (SentID(c) = SentID(d)) <=> (PathString(gitRepoPath[c]) = PathString(gitRepoPath[d]))

C21_Witness ==
  /\ PathResolved(1) /\ PathResolved(2)
  /\ SentID(1) = "65537" /\ SentID(2) = "65537"
  /\ SentURL(1) # SentURL(2)
  /\ PathString(gitRepoPath[1]) = "/srv/data/repos/65537.git"
  /\ gitRepoPath[2] = gitRepoPath[1]

\* The calls both of two runs have made so far.
CommonCalls(c, d) ==
  1..(IF Len(cmdHistory[c]) < Len(cmdHistory[d]) THEN Len(cmdHistory[c])
      ELSE Len(cmdHistory[d]))

\* Some call of the run was made after its deadline.
SomeExpired(c) == \E k \in 1..Len(cmdHistory[c]) : cmdHistory[c][k].expired

C23_TruncateUnderIndex ==
  \A c \in IndexConns :
    /\ \A k \in 1..Len(cmdHistory[c]) :
         cmdHistory[c][k].gone =>
           /\ k \in {2, 3}
           /\ cmdHistory[c][k].argv[1] \in {"git", "zoekt-git-index"}
           /\ PathArg(cmdHistory[c][k].argv) = PathString(gitRepoPath[c])
    /\ PathResolved(c) /\ pc[c] = "done" =>
         Len(cmdHistory[c]) = 3 /\ resp[c] = HttpDefault
    /\ PathResolved(c) /\ pc[c] # "done" => resp[c] = NoResp

\* The clone of an /index run exited 0, a /truncate then removed the
\* repository it had made, the fetch and the index build were started on the
\* path that was gone, and the run was answered 200.
C23_Witness ==
  \E c \in IndexConns : \E t \in TruncateConns :
    /\ pc[c] = "done" /\ resp[c] = HttpDefault
    /\ Len(cmdHistory[c]) = 3
    /\ cmdHistory[c][1].started /\ ~cmdHistory[c][1].failed
    /\ gitRepoPath[c] \in removed[t]
    /\ cmdHistory[c][2].gone /\ cmdHistory[c][2].started
    /\ cmdHistory[c][2].argv = <<"git", "-C", "/data/repos/100.git", "fetch">>
    /\ cmdHistory[c][3].gone /\ cmdHistory[c][3].started
    /\ cmdHistory[c][3].argv = <<"zoekt-git-index", "-index", "/data/index", "/data/repos/100.git">>

\* C24 as stated: a run of which some command was called past the deadline
\* makes all three of its calls and is answered 200.
C24_ExpiredRunAnswered200 ==
  \A c \in IndexConns :
    SomeExpired(c) =>
      IF pc[c] = "done" THEN Len(cmdHistory[c]) = 3 /\ resp[c] = HttpDefault
      ELSE resp[c] = NoResp

\* C24: the deadline never shows in the answer.  A run of which some command
\* was called past the deadline still calls the executor for each stage left
\* (every such call finds the context done and starts nothing), and is
\* answered 200 after its third call when its path resolved; when resolving
\* the path failed it ends after the clone with the 400 of that failure, as
\* a run within its deadline does.
C24_ExpiryNotSurfaced ==
  \A c \in IndexConns :
    SomeExpired(c) =>
      /\ \A k \in 1..Len(cmdHistory[c]) :
           cmdHistory[c][k].expired =>
             ~cmdHistory[c][k].started /\ cmdHistory[c][k].returned
      /\ IF pc[c] # "done" THEN resp[c] = NoResp
         ELSE IF PathFailed(c)
           THEN /\ Len(cmdHistory[c]) = 1
                /\ resp[c] = HttpError("JSON parser error", StatusBadRequest)
         ELSE /\ PathResolved(c)
              /\ Len(cmdHistory[c]) = 3
              /\ cmdHistory[c][3].expired
              /\ resp[c] = HttpDefault

\* A run whose deadline passed before its clone was called: three calls, none
\* started, answered 200.
C24_Witness ==
  \E c \in IndexConns :
    /\ pc[c] = "done" /\ resp[c] = HttpDefault
    /\ Len(cmdHistory[c]) = 3
    /\ \A k \in 1..3 : cmdHistory[c][k].expired /\ ~cmdHistory[c][k].started
    /\ Argvs(c) = ExpectedHistory(c)

\* The digits of 2^32 - 1.
MaxUint32Digits == <<4, 2, 9, 4, 9, 6, 7, 2, 9, 5>>

RECURSIVE DigitsAbove(_, _, _)
\* Of two numbers of as many digits, the first is the greater (from digit i).
DigitsAbove(a, b, i) ==
  IF i > Len(a) THEN FALSE
  ELSE IF a[i] # b[i] THEN a[i] > b[i]
  ELSE DigitsAbove(a, b, i + 1)

\* The RepoID sent is negative, or 2^32 or more.
OutOfRange(c) ==
  LET tok == body[c][5]
  IN \/ tok.neg
     \/ Len(tok.digits) > Len(MaxUint32Digits)
     \/ Len(tok.digits) = Len(MaxUint32Digits) /\ DigitsAbove(tok.digits, MaxUint32Digits, 1)

\* C25: a request whose RepoID is negative or 2^32 and above is answered 400
\* with no command called and no path made; and a path that is made is the
\* path of the RepoID as it was sent, never of that number modulo 2^32.
C25_RepoIDRange ==
  \A c \in IndexConns :
    pc[c] # "decode" =>
      /\ OutOfRange(c) =>
           /\ pc[c] = "done"
           /\ resp[c] = HttpError("JSON parser error", StatusBadRequest)
           /\ cmdHistory[c] = <<>>
           /\ gitRepoPath[c] = NoPath
      /\ cmdHistory[c] # <<>> =>
           /\ ~OutOfRange(c)
           /\ cmdHistory[c][1].argv[5] = SentID(c)
      /\ PathResolved(c) =>
           PathString(gitRepoPath[c]) =
             PathString(OsResolve(opts.repoDir)) \o "/" \o SentID(c) \o ".git"

\* 2^32 + 100 is turned away with nothing called, while 100 has its path.
C25_Witness ==
  \E c \in IndexConns : \E d \in IndexConns :
    /\ SentID(c) = "4294967396" /\ ~body[c][5].neg
    /\ pc[c] = "done" /\ resp[c].status = 400 /\ cmdHistory[c] = <<>>
    /\ SentID(d) = "100" /\ ~body[d][5].neg
    /\ PathResolved(d)
    /\ PathString(gitRepoPath[d]) = "/data/repos/100.git"

====
